---- MODULE Spec2Model ----
(***************************************************************************)
(* Model of musicmodesapp/app.py: the mode and key chord calculator.       *)
(*                                                                         *)
(* Python strings are TLA+ strings (Len, \o and SubSeq act on them as on   *)
(* sequences of characters), Python lists are sequences, and a Python dict *)
(* is the sequence of its [key, value] items in insertion order.  A Python *)
(* call either returns a value or raises: every modelled function returns  *)
(* Ok(v) or Raise(e), and a caller without try/except passes a Raise on.   *)
(***************************************************************************)
EXTENDS Integers, Sequences, FiniteSets, TLC

VARIABLES pc, selected_key, selected_mode, parallel, sort_by_brightness,
          parent_key, results, chord_df, fn, args, ret

vars == <<pc, selected_key, selected_mode, parallel, sort_by_brightness,
          parent_key, results, chord_df, fn, args, ret>>

flowVars == <<pc, selected_key, selected_mode, parallel, sort_by_brightness,
              parent_key, results, chord_df>>

callVars == <<fn, args, ret>>

----------------------------------------------------------------------------
(* Bounds of the model *)

\* longest step list handed to build_scale by the call harness
MaxSteps == 7

\* largest single step handed to build_scale by the call harness
MaxStep == 2

\* largest dict handed to reorder_modes by the call harness
MaxFamily == 3

----------------------------------------------------------------------------
(* Python values *)

NoExc == "none"
ValueError == "ValueError"
KeyError == "KeyError"
IndexError == "IndexError"

Ok(v) == [exc |-> NoExc, val |-> v]
Raise(e) == [exc |-> e, val |-> <<>>]

\* Python's None (st.pills returns it when no pill is selected)
None == "<None>"

Min(a, b) == IF a <= b THEN a ELSE b

\* list.index(x): 0-based position of the first x; NotFound stands for the
\* ValueError that list.index raises when x is absent
NotFound == -1

ListIndex(list, x) ==
    IF \E i \in 1..Len(list) : list[i] = x
    THEN (CHOOSE i \in 1..Len(list) :
             /\ list[i] = x
             /\ \A j \in 1..(i - 1) : list[j] # x) - 1
    ELSE NotFound

\* list[lo:hi] with 0 <= lo, hi
Slice(list, lo, hi) == SubSeq(list, lo + 1, Min(hi, Len(list)))

RECURSIVE Sum(_)
Sum(list) == IF Len(list) = 0 THEN 0 ELSE Head(list) + Sum(Tail(list))

\* str.endswith / str.startswith
EndsWith(s, suffix) ==
    /\ Len(s) >= Len(suffix)
    /\ SubSeq(s, Len(s) - Len(suffix) + 1, Len(s)) = suffix

\* str.split()[-1]: the last whitespace-separated word; IndexError when the
\* string has no word
RECURSIVE RStrip(_)
RStrip(s) ==
    IF Len(s) > 0 /\ SubSeq(s, Len(s), Len(s)) = " "
    THEN RStrip(SubSeq(s, 1, Len(s) - 1))
    ELSE s

RECURSIVE WordStart(_, _)
WordStart(s, i) ==
    IF i > 0 /\ SubSeq(s, i, i) # " " THEN WordStart(s, i - 1) ELSE i + 1

SplitLast(s) ==
    LET t == RStrip(s)
    IN  IF Len(t) = 0 THEN Raise(IndexError)
        ELSE Ok(SubSeq(t, WordStart(t, Len(t)), Len(t)))

\* dict operations on item sequences
DictKeys(d) == [i \in 1..Len(d) |-> d[i].key]

DictHas(d, k) == \E i \in 1..Len(d) : d[i].key = k

DictGet(d, k) == d[CHOOSE i \in 1..Len(d) : d[i].key = k].value

\* d[k] = v: a present key keeps its position, a new key goes last
DictPut(d, k, v) ==
    IF DictHas(d, k)
    THEN [i \in 1..Len(d) |-> IF d[i].key = k THEN [key |-> k, value |-> v]
                                              ELSE d[i]]
    ELSE Append(d, [key |-> k, value |-> v])

----------------------------------------------------------------------------
(* Data *)

NOTES_SHARP == <<"C", "C#", "D", "D#", "E", "F", "F#", "G", "G#", "A", "A#", "B">>

\* mutant: the Lydian pattern with its 4th and 5th steps swapped
MODE_PATTERNS_lydian_typo ==
    << [key |-> "Ionian",     value |-> <<2, 2, 1, 2, 2, 2, 1>>],
       [key |-> "Dorian",     value |-> <<2, 1, 2, 2, 2, 1, 2>>],
       [key |-> "Phrygian",   value |-> <<1, 2, 2, 2, 1, 2, 2>>],
       [key |-> "Lydian",     value |-> <<2, 2, 2, 2, 1, 2, 1>>],
       [key |-> "Mixolydian", value |-> <<2, 2, 1, 2, 2, 1, 2>>],
       [key |-> "Aeolian",    value |-> <<2, 1, 2, 2, 1, 2, 2>>],
       [key |-> "Locrian",    value |-> <<1, 2, 2, 1, 2, 2, 2>>] >>

MODE_PATTERNS ==
    << [key |-> "Ionian",     value |-> <<2, 2, 1, 2, 2, 2, 1>>],
       [key |-> "Dorian",     value |-> <<2, 1, 2, 2, 2, 1, 2>>],
       [key |-> "Phrygian",   value |-> <<1, 2, 2, 2, 1, 2, 2>>],
       [key |-> "Lydian",     value |-> <<2, 2, 2, 1, 2, 2, 1>>],
       [key |-> "Mixolydian", value |-> <<2, 2, 1, 2, 2, 1, 2>>],
       [key |-> "Aeolian",    value |-> <<2, 1, 2, 2, 1, 2, 2>>],
       [key |-> "Locrian",    value |-> <<1, 2, 2, 1, 2, 2, 2>>] >>

\* mutant: the 7th degree minor instead of diminished
IONIAN_TRIADS_typo == <<"maj", "min", "min", "maj", "maj", "min", "min">>

IONIAN_TRIADS == <<"maj", "min", "min", "maj", "maj", "min", "dim">>

BRIGHTNESS_ORDER ==
    <<"Lydian", "Ionian", "Mixolydian", "Dorian", "Aeolian", "Phrygian", "Locrian">>

\* {mode: idx for idx, mode in enumerate(BRIGHTNESS_ORDER)}
RECURSIVE EnumerateInto(_, _, _)
EnumerateInto(d, list, idx) ==
    IF Len(list) = 0 THEN d
    ELSE EnumerateInto(DictPut(d, Head(list), idx), Tail(list), idx + 1)

BRIGHTNESS_MAP == EnumerateInto(<<>>, BRIGHTNESS_ORDER, 0)

----------------------------------------------------------------------------
(* Helper functions *)

RECURSIVE ScaleLoop(_, _, _)
ScaleLoop(root_index, steps, scale) ==
    IF Len(steps) = 0 THEN scale
    ELSE LET next_index == (root_index + Head(steps)) % 12
         IN  ScaleLoop(next_index, Tail(steps),
                       Append(scale, NOTES_SHARP[next_index + 1]))

\* mutant: every step is consumed (intervals instead of intervals[:-1])
build_scale_all_steps(root, intervals) ==
    LET root_index == ListIndex(NOTES_SHARP, root)
    IN  IF root_index = NotFound THEN Raise(ValueError)
        ELSE Ok(ScaleLoop(root_index, intervals, <<root>>))

\* mutant: the first step is dropped (intervals[1:] instead of intervals[:-1])
build_scale_skips_first_step(root, intervals) ==
    LET root_index == ListIndex(NOTES_SHARP, root)
    IN  IF root_index = NotFound THEN Raise(ValueError)
        ELSE Ok(ScaleLoop(root_index, Slice(intervals, 1, Len(intervals)), <<root>>))

\* mutant: an unknown root is taken for the first note instead of raising
build_scale_default_root(root, intervals) ==
    LET found == ListIndex(NOTES_SHARP, root)
        root_index == IF found = NotFound THEN 0 ELSE found
    IN  Ok(ScaleLoop(root_index, Slice(intervals, 0, Len(intervals) - 1), <<root>>))

build_scale(root, intervals) ==
    LET root_index == ListIndex(NOTES_SHARP, root)
    IN  IF root_index = NotFound THEN Raise(ValueError)
        ELSE Ok(ScaleLoop(root_index, Slice(intervals, 0, Len(intervals) - 1),
                          <<root>>))

\* mutant: the qualities are rotated right instead of left
chord_quality_rotated_right(mode) ==
    LET ionian == IONIAN_TRIADS
        shift == ListIndex(DictKeys(MODE_PATTERNS), mode)
    IN  IF shift = NotFound THEN Raise(ValueError)
        ELSE Ok(Slice(ionian, Len(ionian) - shift, Len(ionian))
                    \o Slice(ionian, 0, Len(ionian) - shift))

chord_quality_from_mode(mode) ==
    LET ionian == IONIAN_TRIADS
        shift == ListIndex(DictKeys(MODE_PATTERNS), mode)
    IN  IF shift = NotFound THEN Raise(ValueError)
        ELSE Ok(Slice(ionian, shift, Len(ionian)) \o Slice(ionian, 0, shift))

\* f"{n}{qual if qual != 'maj' else ''}"
ChordSymbol(n, qual) == n \o (IF qual # "maj" THEN qual ELSE "")

mode_scale(root, mode) ==
    IF ~DictHas(MODE_PATTERNS, mode) THEN Raise(KeyError)
    ELSE LET pattern == DictGet(MODE_PATTERNS, mode)
             scale == build_scale(root, pattern)
             qualities == chord_quality_from_mode(mode)
         IN  IF scale.exc # NoExc THEN scale
             ELSE IF qualities.exc # NoExc THEN qualities
             ELSE Ok([scale |-> scale.val,
                      chords |-> [j \in 1..Min(Len(scale.val), Len(qualities.val)) |->
                                     ChordSymbol(scale.val[j], qualities.val[j])]])

\* f"{root} {mode}"
ModeLabel(root, mode) == root \o " " \o mode

RECURSIVE RelativeLoop(_, _, _, _)
RelativeLoop(modes, all_modes, parent_scale, i) ==
    IF i >= Len(all_modes) THEN Ok(modes)
    ELSE IF i >= Len(parent_scale) THEN Raise(IndexError)
    ELSE LET mode == all_modes[i + 1]
             mode_root == parent_scale[i + 1]
             sc == mode_scale(mode_root, mode)
         IN  IF sc.exc # NoExc THEN sc
             ELSE RelativeLoop(DictPut(modes, ModeLabel(mode_root, mode), sc.val.chords),
                               all_modes, parent_scale, i + 1)

relative_modes(parent) ==
    LET all_modes == DictKeys(MODE_PATTERNS)
        parent_scale == build_scale(parent, DictGet(MODE_PATTERNS, "Ionian"))
    IN  IF parent_scale.exc # NoExc THEN parent_scale
        ELSE RelativeLoop(<<>>, all_modes, parent_scale.val, 0)

RECURSIVE ParallelLoop(_, _, _)
ParallelLoop(modes, root_key, rest) ==
    IF Len(rest) = 0 THEN Ok(modes)
    ELSE LET mode == Head(rest)
             sc == mode_scale(root_key, mode)
         IN  IF sc.exc # NoExc THEN sc
             ELSE ParallelLoop(DictPut(modes, ModeLabel(root_key, mode), sc.val.chords),
                               root_key, Tail(rest))

parallel_modes(root_key) == ParallelLoop(<<>>, root_key, DictKeys(MODE_PATTERNS))

RECURSIVE DictFromKeys(_, _, _)
DictFromKeys(d, modes_dict, rotated_keys) ==
    IF Len(rotated_keys) = 0 THEN d
    ELSE DictFromKeys(DictPut(d, Head(rotated_keys), DictGet(modes_dict, Head(rotated_keys))),
                      modes_dict, Tail(rotated_keys))

\* next((i for i, k in enumerate(keys) if k.endswith(start_mode_name)), 0)
StartIdx(keys, start_mode_name) ==
    IF \E i \in 1..Len(keys) : EndsWith(keys[i], start_mode_name)
    THEN (CHOOSE i \in 1..Len(keys) :
             /\ EndsWith(keys[i], start_mode_name)
             /\ \A j \in 1..(i - 1) : ~EndsWith(keys[j], start_mode_name)) - 1
    ELSE 0

\* mutant: the entries before the start are dropped (keys[start_idx:] alone)
reorder_modes_drops_wrapped(modes_dict, start_mode_name) ==
    LET keys == DictKeys(modes_dict)
        start_idx == StartIdx(keys, start_mode_name)
        rotated_keys == Slice(keys, start_idx, Len(keys))
    IN  DictFromKeys(<<>>, modes_dict, rotated_keys)

reorder_modes(modes_dict, start_mode_name) ==
    LET keys == DictKeys(modes_dict)
        start_idx == StartIdx(keys, start_mode_name)
        rotated_keys == Slice(keys, start_idx, Len(keys)) \o Slice(keys, 0, start_idx)
    IN  DictFromKeys(<<>>, modes_dict, rotated_keys)

\* mutant: the offset is added instead of subtracted
find_parent_major_adds(key, mode) ==
    LET modes == DictKeys(MODE_PATTERNS)
        mode_index == ListIndex(modes, mode)
        intervals == DictGet(MODE_PATTERNS, "Ionian")
    IN  IF mode_index = NotFound THEN Raise(ValueError)
        ELSE LET total_semitones == Sum(Slice(intervals, 0, mode_index))
                 key_index == ListIndex(NOTES_SHARP, key)
             IN  IF key_index = NotFound THEN Raise(ValueError)
                 ELSE Ok(NOTES_SHARP[((key_index + total_semitones) % 12) + 1])

\* mutant: the mode's own step is summed too (intervals[:mode_index + 1])
find_parent_major_off_by_one(key, mode) ==
    LET modes == DictKeys(MODE_PATTERNS)
        mode_index == ListIndex(modes, mode)
        intervals == DictGet(MODE_PATTERNS, "Ionian")
    IN  IF mode_index = NotFound THEN Raise(ValueError)
        ELSE LET total_semitones == Sum(Slice(intervals, 0, mode_index + 1))
                 key_index == ListIndex(NOTES_SHARP, key)
             IN  IF key_index = NotFound THEN Raise(ValueError)
                 ELSE Ok(NOTES_SHARP[((key_index - total_semitones) % 12) + 1])

find_parent_major(key, mode) ==
    LET modes == DictKeys(MODE_PATTERNS)
        mode_index == ListIndex(modes, mode)
        intervals == DictGet(MODE_PATTERNS, "Ionian")
    IN  IF mode_index = NotFound THEN Raise(ValueError)
        ELSE LET total_semitones == Sum(Slice(intervals, 0, mode_index))
                 key_index == ListIndex(NOTES_SHARP, key)
             IN  IF key_index = NotFound THEN Raise(ValueError)
                 ELSE Ok(NOTES_SHARP[((key_index - total_semitones) % 12) + 1])

\* mutant: the whole label is looked up (BRIGHTNESS_MAP.get(x, 100))
BrightnessRank_whole_label(x) ==
    IF DictHas(BRIGHTNESS_MAP, x) THEN Ok(DictGet(BRIGHTNESS_MAP, x)) ELSE Ok(100)

\* lambda x: BRIGHTNESS_MAP.get(x.split()[-1], 100)
BrightnessRank(x) ==
    LET word == SplitLast(x)
    IN  IF word.exc # NoExc THEN word
        ELSE IF DictHas(BRIGHTNESS_MAP, word.val)
             THEN Ok(DictGet(BRIGHTNESS_MAP, word.val))
             ELSE Ok(100)

----------------------------------------------------------------------------
(* The page script: one run per user interaction, top to bottom *)

\* chord_df.sort_values("BrightnessRank"): rows in ascending rank
RECURSIVE InsertByRank(_, _)
InsertByRank(sorted, row) ==
    IF Len(sorted) = 0 THEN <<row>>
    ELSE IF row.rank < Head(sorted).rank THEN <<row>> \o sorted
    ELSE <<Head(sorted)>> \o InsertByRank(Tail(sorted), row)

RECURSIVE SortValues(_, _)
SortValues(sorted, rows) ==
    IF Len(rows) = 0 THEN sorted
    ELSE SortValues(InsertByRank(sorted, Head(rows)), Tail(rows))

\* the script starts over with the widgets' new values
Rerun ==
    /\ pc' = "compute"
    /\ parent_key' = None
    /\ results' = <<>>
    /\ chord_df' = <<>>
    /\ UNCHANGED callVars

\* st.pills, single selection: another note, or no note when the selected
\* pill is clicked again
SelectKey(k) ==
    /\ k # selected_key
    /\ selected_key' = k
    /\ UNCHANGED <<selected_mode, parallel, sort_by_brightness>>
    /\ Rerun

SelectMode(m) ==
    /\ m # selected_mode
    /\ selected_mode' = m
    /\ UNCHANGED <<selected_key, parallel, sort_by_brightness>>
    /\ Rerun

ToggleParallel ==
    /\ parallel' = ~parallel
    /\ UNCHANGED <<selected_key, selected_mode, sort_by_brightness>>
    /\ Rerun

ToggleSort ==
    /\ sort_by_brightness' = ~sort_by_brightness
    /\ UNCHANGED <<selected_key, selected_mode, parallel>>
    /\ Rerun

ComputeResults ==
    /\ pc = "compute"
    /\ LET parent == IF parallel THEN Ok(parent_key)
                     ELSE find_parent_major(selected_key, selected_mode)
           family == IF parallel THEN parallel_modes(selected_key)
                     ELSE IF parent.exc # NoExc THEN parent
                     ELSE relative_modes(parent.val)
       IN  /\ parent_key' = IF parent.exc = NoExc THEN parent.val ELSE parent_key
           /\ results' = IF family.exc = NoExc THEN family.val ELSE results
           /\ pc' = IF family.exc = NoExc THEN "reorder" ELSE "error"
    /\ UNCHANGED <<selected_key, selected_mode, parallel, sort_by_brightness, chord_df>>
    /\ UNCHANGED callVars

ReorderResults ==
    /\ pc = "reorder"
    /\ results' = reorder_modes(results, selected_mode)
    /\ pc' = "dataframe"
    /\ UNCHANGED <<selected_key, selected_mode, parallel, sort_by_brightness,
                   parent_key, chord_df>>
    /\ UNCHANGED callVars

BuildDataFrame ==
    /\ pc = "dataframe"
    /\ chord_df' = [i \in 1..Len(results) |->
                       [Mode |-> results[i].key, Chords |-> results[i].value]]
    /\ pc' = "sort"
    /\ UNCHANGED <<selected_key, selected_mode, parallel, sort_by_brightness,
                   parent_key, results>>
    /\ UNCHANGED callVars

SortByBrightness ==
    /\ pc = "sort"
    /\ LET ranks == [i \in 1..Len(chord_df) |-> BrightnessRank(chord_df[i].Mode)]
           raised == \E i \in 1..Len(chord_df) : ranks[i].exc # NoExc
           ranked == [i \in 1..Len(chord_df) |->
                         [rank |-> ranks[i].val, row |-> chord_df[i]]]
           sorted == SortValues(<<>>, ranked)
       IN  IF ~sort_by_brightness
           THEN pc' = "done" /\ chord_df' = chord_df
           ELSE IF raised
           THEN pc' = "error" /\ chord_df' = chord_df
           ELSE /\ pc' = "done"
                /\ chord_df' = [i \in 1..Len(sorted) |-> sorted[i].row]
    /\ UNCHANGED <<selected_key, selected_mode, parallel, sort_by_brightness,
                   parent_key, results>>
    /\ UNCHANGED callVars

----------------------------------------------------------------------------
(* Calls of the helper functions on their own, one call at a time *)

Notes == {NOTES_SHARP[i] : i \in 1..Len(NOTES_SHARP)}

ModeNames == {MODE_PATTERNS[i].key : i \in 1..Len(MODE_PATTERNS)}

\* names that are not among the 12 spellings
UnknownNotes == {"Db", "c", None}

RootInputs == Notes \cup UnknownNotes

ModeInputs == ModeNames \cup {"Blues"}

StepLists == UNION {[1..n -> 1..MaxStep] : n \in 0..MaxSteps}

LabelPool == {"C Ionian", "D Dorian", "C Mixolydian", "F Lydian", "G# Lydian", "X"}

PoolDicts ==
    {[i \in 1..Len(ks) |-> [key |-> ks[i], value |-> <<ks[i] \o "dim">>]] :
        ks \in {s \in UNION {[1..n -> LabelPool] : n \in 0..MaxFamily} :
                   \A i, j \in 1..Len(s) : i # j => s[i] # s[j]}}

FamilyInputs ==
    PoolDicts \cup {relative_modes(r).val : r \in Notes}
              \cup {parallel_modes(r).val : r \in Notes}

StartNameInputs == ModeNames \cup {"", "Blues", "lydian", "n", "C Ionian"}

LabelInputs ==
    {ModeLabel(r, m) : r \in Notes, m \in ModeNames}
        \cup LabelPool
        \cup {"", " ", "Lydian", "C lydian", "C Lydian ", "Ionian C", "C  Dorian", "C Blues"}

Called(f, a, r) ==
    /\ fn' = f
    /\ args' = a
    /\ ret' = r
    /\ UNCHANGED flowVars

Call_build_scale ==
    /\ fn = "idle"
    /\ \E root \in RootInputs, intervals \in StepLists :
           Called("build_scale", <<root, intervals>>, build_scale(root, intervals))

Call_chord_quality_from_mode ==
    /\ fn = "idle"
    /\ \E mode \in ModeInputs :
           Called("chord_quality_from_mode", <<mode>>, chord_quality_from_mode(mode))

Call_mode_scale ==
    /\ fn = "idle"
    /\ \E root \in RootInputs, mode \in ModeInputs :
           Called("mode_scale", <<root, mode>>, mode_scale(root, mode))

Call_relative_modes ==
    /\ fn = "idle"
    /\ \E root \in RootInputs :
           Called("relative_modes", <<root>>, relative_modes(root))

Call_parallel_modes ==
    /\ fn = "idle"
    /\ \E root \in RootInputs :
           Called("parallel_modes", <<root>>, parallel_modes(root))

Call_reorder_modes ==
    /\ fn = "idle"
    /\ \E family \in FamilyInputs, name \in StartNameInputs :
           Called("reorder_modes", <<family, name>>, Ok(reorder_modes(family, name)))

Call_find_parent_major ==
    /\ fn = "idle"
    /\ \E key \in RootInputs, mode \in ModeInputs :
           Called("find_parent_major", <<key, mode>>, find_parent_major(key, mode))

Call_BrightnessRank ==
    /\ fn = "idle"
    /\ \E label \in LabelInputs :
           Called("BrightnessRank", <<label>>, BrightnessRank(label))

Return ==
    /\ fn # "idle"
    /\ fn' = "idle"
    /\ args' = <<>>
    /\ ret' = Ok(<<>>)
    /\ UNCHANGED flowVars

----------------------------------------------------------------------------
(* Specifications *)

Init ==
    /\ pc = "compute"
    /\ selected_key = NOTES_SHARP[1]
    /\ selected_mode = MODE_PATTERNS[1].key
    /\ parallel = FALSE
    /\ sort_by_brightness = FALSE
    /\ parent_key = None
    /\ results = <<>>
    /\ chord_df = <<>>
    /\ fn = "idle"
    /\ args = <<>>
    /\ ret = Ok(<<>>)

Next ==
    \/ \E k \in Notes \cup {None} : SelectKey(k)
    \/ \E m \in ModeNames : SelectMode(m)
    \/ ToggleParallel
    \/ ToggleSort
    \/ ComputeResults
    \/ ReorderResults
    \/ BuildDataFrame
    \/ SortByBrightness

Spec == Init /\ [][Next]_vars

NextCalls ==
    \/ Call_build_scale
    \/ Call_chord_quality_from_mode
    \/ Call_mode_scale
    \/ Call_relative_modes
    \/ Call_parallel_modes
    \/ Call_reorder_modes
    \/ Call_find_parent_major
    \/ Call_BrightnessRank
    \/ Return

SpecCalls == Init /\ [][NextCalls]_vars

----------------------------------------------------------------------------
(* Properties *)

\* the mode names in the order Ionian .. Locrian
CanonicalModes ==
    <<"Ionian", "Dorian", "Phrygian", "Lydian", "Mixolydian", "Aeolian", "Locrian">>

\* 0-based number of a note among the 12 spellings
NoteNumber(n) == ListIndex(NOTES_SHARP, n)

\* a list cyclically rotated left by k positions
RotatedLeft(list, k) ==
    [j \in 1..Len(list) |-> list[((j - 1 + k) % Len(list)) + 1]]

\* C1: for every root R and every mode index i, the i-th entry of
\* relative_modes(R) is labelled "<root_i> <mode_i>" and
\* find_parent_major(root_i, mode_i) returns R.
C1_ParentIsLeftInverse ==
    (fn = "relative_modes" /\ args[1] \in Notes) =>
        /\ ret.exc = NoExc
        /\ Len(ret.val) = 7
        /\ \A i \in 1..7 :
               LET label == ret.val[i].key
                   mode_i == CanonicalModes[i]
                   root_i == SubSeq(label, 1, Len(label) - Len(mode_i) - 1)
                   found == find_parent_major(root_i, mode_i)
               IN  /\ label = root_i \o " " \o mode_i
                   /\ found.exc = NoExc
                   /\ found.val = args[1]

C1_Witness ==
    /\ fn = "relative_modes"
    /\ args[1] = "A#"
    /\ ret.exc = NoExc
    /\ Len(ret.val) = 7
    /\ ret.val[6].key = "G Aeolian"
    /\ find_parent_major("G", "Aeolian").val = "A#"

\* C2: for every root and every mode, build_scale(root, MODE_PATTERNS[mode])
\* returns 7 pairwise distinct notes, the first of them root, and the last
\* note advanced by the pattern's 7th step is root again, modulo 12.
C2_ScaleOfMode ==
    (/\ fn = "build_scale"
     /\ args[1] \in Notes
     /\ \E k \in 1..Len(MODE_PATTERNS) : args[2] = MODE_PATTERNS[k].value) =>
        /\ ret.exc = NoExc
        /\ Len(ret.val) = 7
        /\ \A i, j \in 1..7 : i # j => ret.val[i] # ret.val[j]
        /\ ret.val[1] = args[1]
        /\ (NoteNumber(ret.val[7]) + args[2][7]) % 12 = NoteNumber(args[1])

C2_Witness ==
    /\ fn = "build_scale"
    /\ args[1] = "A"
    /\ args[2] = <<1, 2, 2, 1, 2, 2, 2>>
    /\ ret.exc = NoExc
    /\ ret.val = <<"A", "A#", "C", "D", "D#", "F", "G">>

C3_IonianQualities == <<"maj", "min", "min", "maj", "maj", "min", "dim">>

C3_Suffix(quality) ==
    CASE quality = "maj" -> ""
      [] quality = "min" -> "min"
      [] quality = "dim" -> "dim"

\* C3: mode_scale returns 7 chord symbols, the j-th being the j-th scale note
\* followed by the suffix of the Ionian quality at (j + k) mod 7, k the mode's
\* index in canonical order; with the literal results for C Ionian and D Dorian.
C3_ChordsOfMode ==
    (fn = "mode_scale" /\ args[1] \in Notes /\ args[2] \in ModeNames) =>
        /\ ret.exc = NoExc
        /\ Len(ret.val.scale) = 7
        /\ Len(ret.val.chords) = 7
        /\ LET k == CHOOSE i \in 0..6 : CanonicalModes[i + 1] = args[2]
           IN  \A j \in 0..6 :
                   ret.val.chords[j + 1] =
                       ret.val.scale[j + 1] \o C3_Suffix(C3_IonianQualities[((j + k) % 7) + 1])
        /\ (args = <<"C", "Ionian">> =>
               /\ ret.val.scale = <<"C", "D", "E", "F", "G", "A", "B">>
               /\ ret.val.chords = <<"C", "Dmin", "Emin", "F", "G", "Amin", "Bdim">>)
        /\ (args = <<"D", "Dorian">> =>
               /\ ret.val.scale = <<"D", "E", "F", "G", "A", "B", "C">>
               /\ ret.val.chords = <<"Dmin", "Emin", "F", "G", "Amin", "Bdim", "C">>)

C3_Witness ==
    /\ fn = "mode_scale"
    /\ args = <<"D", "Dorian">>
    /\ ret.exc = NoExc
    /\ ret.val.chords = <<"Dmin", "Emin", "F", "G", "Amin", "Bdim", "C">>

\* C4: relative_modes(P) has 7 entries in canonical mode order, the i-th
\* labelled with the i-th note of the Ionian scale of P and the i-th mode
\* name, its chords being the chords of (P, Ionian) rotated left by i.
C4_RelativeFamily ==
    (fn = "relative_modes" /\ args[1] \in Notes) =>
        /\ ret.exc = NoExc
        /\ Len(ret.val) = 7
        /\ LET ionian == mode_scale(args[1], "Ionian").val
           IN  \A i \in 0..6 :
                   /\ ret.val[i + 1].key = ionian.scale[i + 1] \o " " \o CanonicalModes[i + 1]
                   /\ ret.val[i + 1].value = RotatedLeft(ionian.chords, i)

C4_Witness ==
    /\ fn = "relative_modes"
    /\ args[1] = "G"
    /\ ret.exc = NoExc
    /\ Len(ret.val) = 7
    /\ ret.val[1].value = <<"G", "Amin", "Bmin", "C", "D", "Emin", "F#dim">>
    /\ ret.val[4].key = "C Lydian"
    /\ ret.val[4].value = <<"C", "D", "Emin", "F#dim", "G", "Amin", "Bmin">>

\* label ends with name
C5_EndsWith(label, name) ==
    \E p \in 0..Len(label) : label = SubSeq(label, 1, p) \o name

\* 0-based position of the first entry whose label ends with name, 0 if none
C5_Start(family, name) ==
    LET hits == {i \in 1..Len(family) : C5_EndsWith(family[i].key, name)}
    IN  IF hits = {} THEN 0
        ELSE (CHOOSE i \in hits : \A j \in hits : i <= j) - 1

\* C5: reorder_modes returns the input's entries in the same cyclic order,
\* the first entry whose label ends with start_mode_name in front; with no
\* such entry the order is unchanged; a second application changes nothing.
C5_ReorderRotates ==
    (fn = "reorder_modes") =>
        LET family == args[1]
            name == args[2]
            n == Len(family)
            start == C5_Start(family, name)
        IN  /\ ret.exc = NoExc
            /\ Len(ret.val) = n
            /\ \A j \in 1..n : ret.val[j] = family[((j - 1 + start) % n) + 1]
            /\ ((\A i \in 1..n : ~C5_EndsWith(family[i].key, name)) => ret.val = family)
            /\ reorder_modes(ret.val, name) = ret.val

C5_Witness ==
    /\ fn = "reorder_modes"
    /\ args[2] = "Lydian"
    /\ DictKeys(args[1]) = <<"X", "F Lydian", "G# Lydian">>
    /\ DictKeys(ret.val) = <<"F Lydian", "G# Lydian", "X">>

\* C6 as stated: with 6 or 7 steps build_scale consumes the first 6 steps
\* and returns 7 notes from root, each the previous one advanced by the next
\* step modulo 12; a 7-step list gives the result of its first 6 steps.
C6_ConsumesFirstSix ==
    (fn = "build_scale" /\ args[1] \in Notes /\ Len(args[2]) \in {6, 7}) =>
        /\ ret.exc = NoExc
        /\ Len(ret.val) = 7
        /\ ret.val[1] = args[1]
        /\ \A j \in 1..6 :
               NoteNumber(ret.val[j + 1]) = (NoteNumber(ret.val[j]) + args[2][j]) % 12
        /\ (Len(args[2]) = 7 =>
               build_scale(args[1], SubSeq(args[2], 1, 6)).val = ret.val)

\* C6 amended: with n = 6 or 7 steps build_scale consumes the first n - 1
\* steps and returns n notes from root, each the previous one advanced by the
\* next step modulo 12; the first 6 steps of a 7-step list alone give the
\* first 6 of its 7 notes.
C6_ConsumesAllButLast ==
    (fn = "build_scale" /\ args[1] \in Notes /\ Len(args[2]) \in {6, 7}) =>
        LET n == Len(args[2])
        IN  /\ ret.exc = NoExc
            /\ Len(ret.val) = n
            /\ ret.val[1] = args[1]
            /\ \A j \in 1..(n - 1) :
                   NoteNumber(ret.val[j + 1]) = (NoteNumber(ret.val[j]) + args[2][j]) % 12
            /\ (n = 7 =>
                   build_scale(args[1], SubSeq(args[2], 1, 6)).val = SubSeq(ret.val, 1, 6))

C6_Witness ==
    /\ fn = "build_scale"
    /\ args[1] = "E"
    /\ args[2] = <<2, 2, 1, 2, 2, 2>>
    /\ ret.exc = NoExc
    /\ ret.val = <<"E", "F#", "G#", "A", "B", "C#">>

\* C7: with a note name that is not one of the 12 spellings (and a mode name
\* that is one of the 7) build_scale, mode_scale, relative_modes,
\* parallel_modes and find_parent_major raise the unknown-note error
\* (Python's ValueError) and return nothing.
C7_UnknownNoteRaises ==
    (/\ fn \in {"build_scale", "mode_scale", "relative_modes", "parallel_modes",
                "find_parent_major"}
     /\ args[1] \notin Notes
     /\ (fn \in {"mode_scale", "find_parent_major"} => args[2] \in ModeNames)) =>
        /\ ret.exc = ValueError
        /\ ret.val = <<>>

C7_Witness ==
    /\ fn = "parallel_modes"
    /\ args[1] = "Db"
    /\ ret.exc = ValueError

\* the modes from brightest to darkest
C8_Chain ==
    <<"Lydian", "Ionian", "Mixolydian", "Dorian", "Aeolian", "Phrygian", "Locrian">>

C8_Spaces(s) == \A i \in 1..Len(s) : SubSeq(s, i, i) = " "

\* word, which holds no space, is the last word of label
C8_LastWordIs(label, word) ==
    \E p \in 0..Len(label), q \in 0..Len(label) :
        /\ p + Len(word) = q
        /\ SubSeq(label, p + 1, q) = word
        /\ C8_Spaces(SubSeq(label, q + 1, Len(label)))
        /\ (p = 0 \/ SubSeq(label, p, p) = " ")

\* C8: the brightness rank maps the 7 mode names one-to-one onto 0..6 in the
\* order Lydian, Ionian, Mixolydian, Dorian, Aeolian, Phrygian, Locrian, and
\* the sort's lookup gives a label whose last word is no mode name 100.
C8_BrightnessRanks ==
    (fn = "BrightnessRank") =>
        /\ {DictGet(BRIGHTNESS_MAP, m) : m \in ModeNames} = 0..6
        /\ Len(BRIGHTNESS_MAP) = 7
        /\ \A r \in 0..6 :
               C8_LastWordIs(args[1], C8_Chain[r + 1]) =>
                   (ret.exc = NoExc /\ ret.val = r)
        /\ ((/\ ~C8_Spaces(args[1])
             /\ \A r \in 0..6 : ~C8_LastWordIs(args[1], C8_Chain[r + 1])) =>
               (ret.exc = NoExc /\ ret.val = 100))

C8_Witness ==
    /\ fn = "BrightnessRank"
    /\ args[1] = "C lydian"
    /\ ret.exc = NoExc
    /\ ret.val = 100

\* C9: for every selected key among the 12 notes, every selected mode and
\* either value of the parallel flag, the family after reorder_modes has 7
\* entries, the first labelled "<selected key> <selected mode>"; before the
\* reordering the relative family holds that entry at the mode's index.
C9_SelectionFirst ==
    /\ (pc \in {"dataframe", "sort", "done"} /\ selected_key \in Notes) =>
           /\ Len(results) = 7
           /\ results[1].key = selected_key \o " " \o selected_mode
    /\ (pc = "reorder" /\ selected_key \in Notes) =>
           /\ Len(results) = 7
           /\ \A i \in 1..7 :
                  CanonicalModes[i] = selected_mode =>
                      results[i].key = selected_key \o " " \o selected_mode
    /\ (pc = "error" => selected_key \notin Notes)

C9_Witness ==
    /\ pc = "dataframe"
    /\ ~parallel
    /\ selected_key = "F#"
    /\ selected_mode = "Lydian"
    /\ parent_key = "C#"
    /\ results[1].key = "F# Lydian"

\* the quality of the triad on notes a third and a fifth above a note
C10_Stacked(third, fifth) ==
    CASE third = 4 /\ fifth = 7 -> "maj"
      [] third = 3 /\ fifth = 7 -> "min"
      [] third = 3 /\ fifth = 6 -> "dim"
      [] OTHER -> "other"

\* C10: for every root, mode and degree j the quality chord_quality_from_mode
\* gives degree j is that of the triad on degrees j, j+2, j+4 of the scale:
\* major for 4 and 7 semitones, minor for 3 and 7, diminished for 3 and 6.
C10_QualityIsStackedTriad ==
    (fn = "mode_scale" /\ args[1] \in Notes /\ args[2] \in ModeNames) =>
        /\ ret.exc = NoExc
        /\ Len(ret.val.scale) = 7
        /\ LET scale == ret.val.scale
               qualities == chord_quality_from_mode(args[2])
           IN  /\ qualities.exc = NoExc
               /\ Len(qualities.val) = 7
               /\ \A j \in 0..6 :
                      LET base == NoteNumber(scale[j + 1])
                          third == (NoteNumber(scale[((j + 2) % 7) + 1]) + 12 - base) % 12
                          fifth == (NoteNumber(scale[((j + 4) % 7) + 1]) + 12 - base) % 12
                      IN  /\ C10_Stacked(third, fifth) # "other"
                          /\ qualities.val[j + 1] = C10_Stacked(third, fifth)
                          /\ ret.val.chords[j + 1] =
                                 ChordSymbol(scale[j + 1], C10_Stacked(third, fifth))

C10_Witness ==
    /\ fn = "mode_scale"
    /\ args = <<"B", "Locrian">>
    /\ ret.exc = NoExc
    /\ ret.val.chords = <<"Bdim", "C", "Dmin", "Emin", "F", "G", "Amin">>

====
